---------------------------- MODULE Spec2Model ----------------------------
(***************************************************************************)
(* Model of model/bot.go: the Bot entity, its validator (IsValid), its     *)
(* lifecycle stamps (PreSave, PreUpdate), the patch merge (Patch), the     *)
(* JSON codec (ToJson / BotFromJson / BotPatchFromJson / BotListFromJson)  *)
(* and the cache tokens (Bot.Etag, BotList.Etag).                          *)
(*                                                                         *)
(* Go strings are byte strings.  A string is modelled by its run-length    *)
(* encoding: a sequence of runs [r |-> rune, n |-> count], n > 0, with no  *)
(* two neighbouring runs of the same rune, so that two strings are equal   *)
(* exactly when their encodings are equal.  A "rune" here is what          *)
(* utf8.DecodeRuneInString steps over: a well-formed UTF-8 sequence, or a  *)
(* single byte that is not part of one ("xFF").                            *)
(*                                                                         *)
(* A Go pointer is modelled as a set with at most one element: Nil is the  *)
(* nil pointer, Ptr(x) points to x.                                        *)
(***************************************************************************)
EXTENDS Integers, Sequences, FiniteSets, TLC

VARIABLES
    bot,        \* the *Bot the lifecycle operations work on
    clone,      \* Nil, or the copy an earlier Clone() returned
    op,         \* the last operation run on bot, with its inputs
    savedAt,    \* Nil, or the clock value the last PreSave read
    zeroRead,   \* whether a clock read since the last PreSave returned 0
    result,     \* <<>>, or <<r>> with r what IsValid returned for bot
    list,       \* a BotList
    token,      \* <<>>, or <<s>> with s what BotList.Etag returned for list
    wire,       \* the JSON document a decoder reads
    decoded     \* <<>>, or <<f, v>>: decoder f returned v for wire

vars == <<bot, clone, op, savedAt, zeroRead, result, list, token, wire, decoded>>

-----------------------------------------------------------------------------
(* Pointers *)

Nil == {}

Ptr(x) == {x}

Deref(p) == CHOOSE x \in p : TRUE

-----------------------------------------------------------------------------
(* Strings *)

\* Bytes a rune takes in UTF-8; "xFF" is a byte that is no valid UTF-8,
\* "uFFFD" is the replacement character, "e_acute" is U+00E9.
RuneWidth(r) ==
    CASE r = "e_acute" -> 2
      [] r = "uFFFD" -> 3
      [] OTHER -> 1

\* The string of n times the rune r.
Str(r, n) == IF n = 0 THEN <<>> ELSE << [r |-> r, n |-> n] >>

\* s + t
Concat(s, t) ==
    IF s = <<>> THEN t
    ELSE IF t = <<>> THEN s
    ELSE IF s[Len(s)].r = t[1].r
         THEN SubSeq(s, 1, Len(s) - 1)
                \o << [r |-> t[1].r, n |-> s[Len(s)].n + t[1].n] >>
                \o Tail(t)
         ELSE s \o t

\* len(s): the number of bytes.
RECURSIVE ByteLen(_)
ByteLen(s) ==
    IF s = <<>> THEN 0 ELSE s[1].n * RuneWidth(s[1].r) + ByteLen(Tail(s))

\* utf8.RuneCountInString(s): every byte that is no valid UTF-8 counts as
\* one rune.
RECURSIVE RuneCountInString(_)
RuneCountInString(s) ==
    IF s = <<>> THEN 0 ELSE s[1].n + RuneCountInString(Tail(s))

\* fmt.Sprintf("%v", n) for an int64: the decimal digits of n.
DigitRune(d) == <<"0", "1", "2", "3", "4", "5", "6", "7", "8", "9">>[d + 1]

RECURSIVE Digits(_)
Digits(n) ==
    IF n < 10 THEN Str(DigitRune(n), 1)
    ELSE Concat(Digits(n \div 10), Str(DigitRune(n % 10), 1))

FormatInt(n) == IF n < 0 THEN Concat(Str("-", 1), Digits(-n)) ELSE Digits(n)

-----------------------------------------------------------------------------
(* Collaborators of bot.go, defined in other files of the package *)

\* The shared maximum of the human account's first name.
USER_FIRST_NAME_MAX_RUNES == 64

BOT_DISPLAY_NAME_MAX_RUNES == USER_FIRST_NAME_MAX_RUNES

\* http.StatusBadRequest
StatusBadRequest == 400

\* The shared username check of the human account: 1 to 64 bytes, each a
\* lower-case letter, a digit, '.', '-' or '_'.
UsernameRunes ==
    {"a", "b", "c", "_", ".", "-",
     "0", "1", "2", "3", "4", "5", "6", "7", "8", "9"}

IsValidUsername(s) ==
    /\ ByteLen(s) >= 1
    /\ ByteLen(s) <= 64
    /\ \A i \in 1..Len(s) : s[i].r \in UsernameRunes

\* The error-reporting contract: operation name, message key, trace
\* context, debug detail, HTTP status.
NewAppError(where, id, params, details, status) ==
    [Where |-> where, Id |-> id, Message |-> id, params |-> params,
     DetailedError |-> details, StatusCode |-> status]

\* The server version every cache token starts with.
CurrentVersion ==
    << [r |-> "5", n |-> 1], [r |-> ".", n |-> 1], [r |-> "1", n |-> 1],
       [r |-> "0", n |-> 1], [r |-> ".", n |-> 1], [r |-> "0", n |-> 1] >>

\* The shared token function: the version, then "." and each part as "%v"
\* prints it.  parts holds the parts already printed.
RECURSIVE Etag(_)
Etag(parts) ==
    IF parts = <<>> THEN CurrentVersion
    ELSE Concat(Concat(Etag(SubSeq(parts, 1, Len(parts) - 1)), Str(".", 1)),
                parts[Len(parts)])

-----------------------------------------------------------------------------
(* type Bot, type BotPatch *)

Bot(uid, name, display, desc, creator, createAt, updateAt, deleteAt) ==
    [UserId |-> uid, Username |-> name, DisplayName |-> display,
     Description |-> desc, CreatorId |-> creator,
     CreateAt |-> createAt, UpdateAt |-> updateAt, DeleteAt |-> deleteAt]

\* Bot{}
ZeroBot == Bot(<<>>, <<>>, <<>>, <<>>, <<>>, 0, 0, 0)

\* Each field is a *string: Nil when the patch leaves the field alone.
BotPatch(username, displayName, description) ==
    [Username |-> username, DisplayName |-> displayName,
     Description |-> description]

\* BotPatch{}
NoPatch == BotPatch(Nil, Nil, Nil)

\* func (b *Bot) Trace()
Trace(b) == [user_id |-> b.UserId]

\* func (b *Bot) Clone()
Clone(b) == Ptr(b)

\* IsValid measuring DisplayName and Description in bytes instead of runes.
IsValidCountsBytes(b) ==
    LET reject(key) ==
            Ptr(NewAppError("Bot.IsValid", key, Trace(b), "", StatusBadRequest))
    IN  IF ByteLen(b.UserId) # 26
        THEN reject("model.bot.is_valid.user_id.app_error")
        ELSE IF ~IsValidUsername(b.Username)
        THEN reject("model.bot.is_valid.username.app_error")
        ELSE IF ByteLen(b.DisplayName) > BOT_DISPLAY_NAME_MAX_RUNES
        THEN reject("model.bot.is_valid.user_id.app_error")
        ELSE IF ByteLen(b.Description) > 1024
        THEN reject("model.bot.is_valid.description.app_error")
        ELSE IF ByteLen(b.CreatorId) # 26
        THEN reject("model.bot.is_valid.creator_id.app_error")
        ELSE IF b.CreateAt = 0
        THEN reject("model.bot.is_valid.create_at.app_error")
        ELSE IF b.UpdateAt = 0
        THEN reject("model.bot.is_valid.update_at.app_error")
        ELSE Nil

\* func (b *Bot) IsValid(): Nil, or a pointer to the AppError of the first
\* check that fails.
IsValid(b) ==
    IF ByteLen(b.UserId) # 26
    THEN Ptr(NewAppError("Bot.IsValid", "model.bot.is_valid.user_id.app_error",
                         Trace(b), "", StatusBadRequest))
    ELSE IF ~IsValidUsername(b.Username)
    THEN Ptr(NewAppError("Bot.IsValid", "model.bot.is_valid.username.app_error",
                         Trace(b), "", StatusBadRequest))
    ELSE IF RuneCountInString(b.DisplayName) > BOT_DISPLAY_NAME_MAX_RUNES
    THEN Ptr(NewAppError("Bot.IsValid", "model.bot.is_valid.user_id.app_error",
                         Trace(b), "", StatusBadRequest))
    ELSE IF RuneCountInString(b.Description) > 1024
    THEN Ptr(NewAppError("Bot.IsValid",
                         "model.bot.is_valid.description.app_error",
                         Trace(b), "", StatusBadRequest))
    ELSE IF ByteLen(b.CreatorId) # 26
    THEN Ptr(NewAppError("Bot.IsValid",
                         "model.bot.is_valid.creator_id.app_error",
                         Trace(b), "", StatusBadRequest))
    ELSE IF b.CreateAt = 0
    THEN Ptr(NewAppError("Bot.IsValid",
                         "model.bot.is_valid.create_at.app_error",
                         Trace(b), "", StatusBadRequest))
    ELSE IF b.UpdateAt = 0
    THEN Ptr(NewAppError("Bot.IsValid",
                         "model.bot.is_valid.update_at.app_error",
                         Trace(b), "", StatusBadRequest))
    ELSE Nil

\* func (b *Bot) PreSave(), with now what GetMillis() returns.
PreSave(b, now) ==
    [b EXCEPT !.CreateAt = now, !.UpdateAt = now, !.DeleteAt = 0]

\* PreUpdate with the stamp of PreSave copied along.
PreUpdateStampsCreateAt(b, now) ==
    [b EXCEPT !.CreateAt = now, !.UpdateAt = now]

\* func (b *Bot) PreUpdate(), with now what GetMillis() returns.
PreUpdate(b, now) == [b EXCEPT !.UpdateAt = now]

\* Etag on the stamp of creation instead of the stamp of the last update.
Bot_EtagOfCreateAt(b) == Etag(<<b.UserId, FormatInt(b.CreateAt)>>)

\* func (b *Bot) Etag()
Bot_Etag(b) == Etag(<<b.UserId, FormatInt(b.UpdateAt)>>)

\* Patch that takes a present empty string for an absent field.
PatchSkipsEmpty(b, patch) ==
    LET set(field) == field # Nil /\ Deref(field) # <<>>
        b1 == IF set(patch.Username)
              THEN [b EXCEPT !.Username = Deref(patch.Username)] ELSE b
        b2 == IF set(patch.DisplayName)
              THEN [b1 EXCEPT !.DisplayName = Deref(patch.DisplayName)] ELSE b1
    IN  IF set(patch.Description)
        THEN [b2 EXCEPT !.Description = Deref(patch.Description)] ELSE b2

\* Patch that moves the old DisplayName into Description when both are
\* patched.
PatchShiftsDisplayName(b, patch) ==
    LET b1 == IF patch.Username # Nil
              THEN [b EXCEPT !.Username = Deref(patch.Username)] ELSE b
        b2 == IF patch.DisplayName # Nil
              THEN [b1 EXCEPT !.DisplayName = Deref(patch.DisplayName)] ELSE b1
    IN  IF patch.Description # Nil
        THEN [b2 EXCEPT !.Description =
                 IF patch.DisplayName # Nil THEN b.DisplayName
                 ELSE Deref(patch.Description)]
        ELSE b2

\* func (b *Bot) Patch(patch *BotPatch)
Patch(b, patch) ==
    LET b1 == IF patch.Username # Nil
              THEN [b EXCEPT !.Username = Deref(patch.Username)] ELSE b
        b2 == IF patch.DisplayName # Nil
              THEN [b1 EXCEPT !.DisplayName = Deref(patch.DisplayName)] ELSE b1
    IN  IF patch.Description # Nil
        THEN [b2 EXCEPT !.Description = Deref(patch.Description)] ELSE b2

\* The scan of BotList.Etag with >= for >: the last entity with the
\* greatest UpdateAt wins.
RECURSIVE EtagScanLastWins(_, _, _)
EtagScanLastWins(l, id, t) ==
    IF l = <<>> THEN <<id, t>>
    ELSE IF l[1].UpdateAt >= t
         THEN EtagScanLastWins(Tail(l), l[1].UserId, l[1].UpdateAt)
         ELSE EtagScanLastWins(Tail(l), id, t)

\* The scan of BotList.Etag without the assignment to id.
RECURSIVE EtagScanKeepsId(_, _, _)
EtagScanKeepsId(l, id, t) ==
    IF l = <<>> THEN <<id, t>>
    ELSE IF l[1].UpdateAt > t
         THEN EtagScanKeepsId(Tail(l), id, l[1].UpdateAt)
         ELSE EtagScanKeepsId(Tail(l), id, t)

\* The loop of BotList.Etag over the entities l still to visit, with id and
\* t as the loop has set them so far: <<id, t>> after the loop.
RECURSIVE EtagScan(_, _, _)
EtagScan(l, id, t) ==
    IF l = <<>> THEN <<id, t>>
    ELSE IF l[1].UpdateAt > t
         THEN EtagScan(Tail(l), l[1].UserId, l[1].UpdateAt)
         ELSE EtagScan(Tail(l), id, t)

\* func (l *BotList) Etag()
BotList_Etag(l) ==
    LET found == EtagScan(l, Str("0", 1), 0)
        delta == 0
    IN  Etag(<<found[1], FormatInt(found[2]), FormatInt(delta),
               FormatInt(Len(l))>>)

-----------------------------------------------------------------------------
(* encoding/json, as bot.go uses it.  What travels is modelled as the JSON *)
(* document the bytes spell, or as Garbage when they spell none.           *)

Garbage == [kind |-> "garbage"]

JNull == [kind |-> "null"]

JNum(n) == [kind |-> "number", num |-> n]

JStr(s) == [kind |-> "string", str |-> s]

\* members: a function from the keys of the object to documents.
JObj(members) == [kind |-> "object", members |-> members]

JArr(elems) == [kind |-> "array", elems |-> elems]

\* json.Marshal writes a string coerced to valid UTF-8: each byte that is
\* no valid UTF-8 becomes U+FFFD.
RECURSIVE ToValidUTF8(_)
ToValidUTF8(s) ==
    IF s = <<>> THEN <<>>
    ELSE Concat(Str(IF s[1].r = "xFF" THEN "uFFFD" ELSE s[1].r, s[1].n),
                ToValidUTF8(Tail(s)))

\* The json tags of type Bot, and the fields of type int64.
WireKey(field) ==
    CASE field = "UserId" -> "user_id"
      [] field = "Username" -> "username"
      [] field = "DisplayName" -> "display_name"
      [] field = "Description" -> "description"
      [] field = "CreatorId" -> "creator_id"
      [] field = "CreateAt" -> "create_at"
      [] field = "UpdateAt" -> "update_at"
      [] field = "DeleteAt" -> "delete_at"

IntFields == {"CreateAt", "UpdateAt", "DeleteAt"}

\* func (b *Bot) ToJson()
Bot_ToJson(b) ==
    JObj([user_id |-> JStr(ToValidUTF8(b.UserId)),
          username |-> JStr(ToValidUTF8(b.Username)),
          display_name |-> JStr(ToValidUTF8(b.DisplayName)),
          description |-> JStr(ToValidUTF8(b.Description)),
          creator_id |-> JStr(ToValidUTF8(b.CreatorId)),
          create_at |-> JNum(b.CreateAt),
          update_at |-> JNum(b.UpdateAt),
          delete_at |-> JNum(b.DeleteAt)])

\* Decoding an object into a Bot{}: a member whose key is the tag of a
\* field sets the field when its value has the kind of the field, leaves it
\* alone when it is null, and otherwise is skipped and remembered as an
\* UnmarshalTypeError while the decoding goes on; other keys are ignored.
DecodeBot(members) ==
    [field \in DOMAIN ZeroBot |->
        LET key == WireKey(field)
            kind == IF field \in IntFields THEN "number" ELSE "string"
        IN  IF key \in DOMAIN members /\ members[key].kind = kind
            THEN IF field \in IntFields THEN members[key].num
                 ELSE members[key].str
            ELSE ZeroBot[field]]

DecodeBotFails(members) ==
    \E field \in DOMAIN ZeroBot :
        LET key == WireKey(field)
            kind == IF field \in IntFields THEN "number" ELSE "string"
        IN  key \in DOMAIN members /\ members[key].kind \notin {kind, "null"}

\* Decoding a document into a *Bot that is nil: null leaves it nil, any
\* other value allocates a Bot{} first, and only an object fills it.
DecodeBotPtr(doc) ==
    CASE doc.kind = "null" -> Nil
      [] doc.kind = "object" -> Ptr(DecodeBot(doc.members))
      [] OTHER -> Ptr(ZeroBot)

\* func BotFromJson(data io.Reader): the error of Decode is dropped.  Bytes
\* that spell no JSON value fail before anything is stored.
BotFromJson(doc) ==
    IF doc = Garbage THEN Nil ELSE DecodeBotPtr(doc)

\* func BotListFromJson(data io.Reader): the error of Decode is dropped.
\* Only an array stores elements, each decoded as a *Bot.
BotListFromJson(doc) ==
    IF doc.kind = "array"
    THEN [i \in 1..Len(doc.elems) |-> DecodeBotPtr(doc.elems[i])]
    ELSE <<>>

\* Decoding an object into a BotPatch{}: a string sets the field, null
\* leaves it nil.
PatchKeys == {"username", "display_name", "description"}

DecodePatch(members) ==
    LET field(key) ==
            IF key \in DOMAIN members /\ members[key].kind = "string"
            THEN Ptr(members[key].str) ELSE Nil
    IN  BotPatch(field("username"), field("display_name"),
                 field("description"))

\* The err of decoder.Decode(&botPatch).
DecodePatchFails(doc) ==
    CASE doc.kind = "null" -> FALSE
      [] doc.kind = "object" ->
            \E key \in PatchKeys \cap DOMAIN doc.members :
                doc.members[key].kind \notin {"string", "null"}
      [] OTHER -> TRUE

\* func BotPatchFromJson(data io.Reader)
BotPatchFromJson(doc) ==
    IF DecodePatchFails(doc) THEN Nil
    ELSE IF doc.kind = "object" THEN Ptr(DecodePatch(doc.members))
    ELSE Ptr(NoPatch)

-----------------------------------------------------------------------------
(* The rules of the data model *)

\* The seven rules of the data model, each on its own.
RuleHolds(b, i) ==
    CASE i = 1 -> ByteLen(b.UserId) = 26
      [] i = 2 -> IsValidUsername(b.Username)
      [] i = 3 -> RuneCountInString(b.DisplayName) <= USER_FIRST_NAME_MAX_RUNES
      [] i = 4 -> RuneCountInString(b.Description) <= 1024
      [] i = 5 -> ByteLen(b.CreatorId) = 26
      [] i = 6 -> b.CreateAt # 0
      [] i = 7 -> b.UpdateAt # 0

\* The first rule, in the order of the data model, that b breaks; 0 when b
\* breaks none.
FirstFailing(b) ==
    IF \A i \in 1..7 : RuleHolds(b, i) THEN 0
    ELSE CHOOSE i \in 1..7 :
            /\ ~RuleHolds(b, i)
            /\ \A j \in 1..(i - 1) : RuleHolds(b, j)

-----------------------------------------------------------------------------
(* Bounds and the inputs drawn from them *)

\* GetMillis() returns a value of 0..MaxClock.
MaxClock == 2

Clock == 0..MaxClock

\* The entity a caller constructs before the first save: no time stamp
\* yet but a deletion stamp left in it.
NewBots ==
    { Bot(Str("a", 26), Str("a", 1), Str("a", 64), Str("a", 1024),
          Str("b", 26), 0, 0, 7) }

\* The patches a caller sends: each field absent, present and empty, or
\* present with a value (one that the validator rejects among them).
Patches ==
    { BotPatch(u, n, d) :
        u \in {Nil, Ptr(<<>>), Ptr(Str("b", 1))},
        n \in {Nil, Ptr(Str("e_acute", 65))},
        d \in {Nil, Ptr(<<>>)} }

\* The record kept of the last operation run on bot; again tells that the
\* operation before it was the same one with the same inputs.
Op(name, now, patch) ==
    [name |-> name, now |-> now, patch |-> patch,
     again |-> (op.name = name /\ op.now = now /\ op.patch = patch)]

\* The values of the variables a specification does not use.
IdleLife ==
    /\ clone = Nil
    /\ op = [name |-> "none", now |-> 0, patch |-> NoPatch, again |-> FALSE]
    /\ savedAt = Nil /\ zeroRead = FALSE

IdleValid == result = <<>>

IdleList == list = <<>> /\ token = <<>>

IdleCodec == wire = Garbage /\ decoded = <<>>

-----------------------------------------------------------------------------
(* The life of one entity: PreSave, PreUpdate, Patch, Clone *)

PreSaveStep ==
    \E now \in Clock :
        /\ bot' = PreSave(bot, now)
        /\ op' = Op("PreSave", now, NoPatch)
        /\ savedAt' = Ptr(now)
        /\ zeroRead' = (now = 0)
        /\ UNCHANGED <<clone, result, list, token, wire, decoded>>

PreUpdateStep ==
    \E now \in Clock :
        /\ bot' = PreUpdate(bot, now)
        /\ op' = Op("PreUpdate", now, NoPatch)
        /\ zeroRead' = (zeroRead \/ (savedAt # Nil /\ now = 0))
        /\ UNCHANGED <<clone, savedAt, result, list, token, wire, decoded>>

PatchStep ==
    \E patch \in Patches :
        /\ bot' = Patch(bot, patch)
        /\ op' = Op("Patch", 0, patch)
        /\ UNCHANGED <<clone, savedAt, zeroRead, result, list, token, wire,
                       decoded>>

CloneStep ==
    /\ clone' = Clone(bot)
    /\ UNCHANGED <<bot, op, savedAt, zeroRead, result, list, token, wire,
                   decoded>>

Init ==
    /\ bot \in NewBots
    /\ IdleLife /\ IdleValid /\ IdleList /\ IdleCodec

Next == PreSaveStep \/ PreUpdateStep \/ PatchStep \/ CloneStep

Spec == Init /\ [][Next]_vars

\* C3: applying a patch a second time in a row leaves the entity exactly as
\* the first application left it.
C3_PatchIdempotent ==
    [][(op'.name = "Patch" /\ op'.again) => bot' = bot]_vars

\* A patch with all three fields present was applied twice in a row to an
\* entity that held other values before.
C3_Witness ==
    /\ op.name = "Patch" /\ op.again
    /\ \A f \in {"Username", "DisplayName", "Description"} : op.patch[f] # Nil
    /\ bot.Username = <<>>
    /\ bot.DisplayName = Str("e_acute", 65)

\* C4: Patch overwrites Username, DisplayName and Description exactly where
\* the patch has the field present, a present empty string included, leaves
\* UserId, CreatorId, CreateAt, UpdateAt and DeleteAt as they were, leaves
\* the whole entity as it was when no field is present, and does so whether
\* or not the validator accepts the result.
C4_PatchFrame ==
    [][op'.name = "Patch" =>
        LET patch == op'.patch
            merged(f) == IF patch[f] # Nil THEN Deref(patch[f]) ELSE bot[f]
        IN  /\ bot'.Username = merged("Username")
            /\ bot'.DisplayName = merged("DisplayName")
            /\ bot'.Description = merged("Description")
            /\ \A f \in {"UserId", "CreatorId", "CreateAt", "UpdateAt",
                          "DeleteAt"} : bot'[f] = bot[f]
            /\ (patch = NoPatch => bot' = bot)]_vars

\* A patch with an empty Username and a DisplayName of 65 runes was merged
\* into a saved entity, Description left alone, and the validator rejects
\* the result.
C4_Witness ==
    /\ op.name = "Patch" /\ savedAt # Nil
    /\ op.patch = BotPatch(Ptr(<<>>), Ptr(Str("e_acute", 65)), Nil)
    /\ bot.Username = <<>>
    /\ bot.Description = Str("a", 1024)
    /\ IsValid(bot) # Nil

\* C7: PreSave sets CreateAt and UpdateAt to the one clock value it reads
\* and DeleteAt to 0, PreUpdate sets UpdateAt to the clock value it reads,
\* and neither changes another field; after PreSave, whatever Patch and
\* PreUpdate steps follow, CreateAt is the value PreSave read and DeleteAt
\* is 0, and when no clock read returned 0 both time stamp rules hold.
C7_Stamps ==
    /\ [][ /\ op'.name = "PreSave" =>
                bot' = [bot EXCEPT !.CreateAt = op'.now, !.UpdateAt = op'.now,
                                   !.DeleteAt = 0]
           /\ op'.name = "PreUpdate" =>
                bot' = [bot EXCEPT !.UpdateAt = op'.now] ]_vars
    /\ [](savedAt # Nil =>
            /\ bot.CreateAt = Deref(savedAt)
            /\ bot.DeleteAt = 0
            /\ (~zeroRead => RuleHolds(bot, 6) /\ RuleHolds(bot, 7)))

\* An entity that carried a deletion stamp was saved, patched and then
\* updated at a later clock value, no clock read returning 0.
C7_Witness ==
    /\ savedAt # Nil /\ ~zeroRead
    /\ op.name = "PreUpdate"
    /\ bot.UpdateAt > bot.CreateAt
    /\ bot.Username = Str("b", 1)
    /\ clone # Nil /\ Deref(clone).DeleteAt = 7

\* C8 as stated: two states of the entity have the same Etag exactly when
\* all their fields are equal, and a change of UpdateAt changes the Etag.
C8_SameEtagIffSameState ==
    clone # Nil =>
        LET old == Deref(clone) IN
        /\ (Bot_Etag(old) = Bot_Etag(bot)) <=> (old = bot)
        /\ old.UpdateAt # bot.UpdateAt => Bot_Etag(old) # Bot_Etag(bot)

\* C8 amended: two states of the entity have the same Etag exactly when
\* their UserId and UpdateAt are equal, whatever their other fields: equal
\* states have equal Etags, a change of UpdateAt changes the Etag, and a
\* change of any other field alone does not.
C8_SameEtagIffSameIdAndUpdateAt ==
    clone # Nil =>
        LET old == Deref(clone) IN
        /\ (Bot_Etag(old) = Bot_Etag(bot))
              <=> (old.UserId = bot.UserId /\ old.UpdateAt = bot.UpdateAt)
        /\ old = bot => Bot_Etag(old) = Bot_Etag(bot)
        /\ old.UpdateAt # bot.UpdateAt => Bot_Etag(old) # Bot_Etag(bot)

\* The entity was patched after it was cloned and kept its Etag.
C8_Witness ==
    /\ clone # Nil
    /\ op.name = "Patch"
    /\ Deref(clone).Username # bot.Username
    /\ Deref(clone).UpdateAt = 2
    /\ Bot_Etag(Deref(clone)) = Bot_Etag(bot)

-----------------------------------------------------------------------------
(* The validator applied to entities in any condition *)

\* The entities handed to the validator: every field at, below and above
\* its limit, in ASCII, in two-byte runes and in bytes that are no UTF-8.
CheckedBots ==
    { Bot(uid, name, display, desc, creator, createAt, updateAt, 0) :
        uid \in {Str("a", 26), Str("a", 25), Str("a", 27),
                 Str("e_acute", 13), Str("e_acute", 26), Str("xFF", 26)},
        name \in {Str("a", 1), <<>>, Str("a", 64), Str("a", 65),
                  Str("e_acute", 1)},
        display \in {<<>>, Str("a", 64), Str("a", 65), Str("e_acute", 64),
                     Str("xFF", 65)},
        desc \in {<<>>, Str("a", 1024), Str("a", 1025),
                  Str("e_acute", 1024)},
        creator \in {Str("b", 26), Str("b", 25), Str("b", 27)},
        createAt \in {0, 7, -7},
        updateAt \in {0, 7} }

IsValidStep ==
    /\ result = <<>>
    /\ result' = <<IsValid(bot)>>
    /\ UNCHANGED <<bot, clone, op, savedAt, zeroRead, list, token, wire,
                   decoded>>

InitValid ==
    /\ bot \in CheckedBots
    /\ IdleLife /\ IdleValid /\ IdleList /\ IdleCodec

NextValid == IsValidStep

SpecValid == InitValid /\ [][NextValid]_vars

\* C1: IsValid returns no error exactly when all seven rules hold; a UserId
\* or CreatorId of 25 or 27 bytes is rejected, a DisplayName of exactly the
\* shared maximum of runes and a Description of exactly 1024 runes are
\* accepted when the other rules hold, and one rune more is rejected.
C1_IsValidIffSevenRules ==
    result # <<>> =>
        /\ (result[1] = Nil) <=> (\A i \in 1..7 : RuleHolds(bot, i))
        /\ ByteLen(bot.UserId) \in {25, 27} => result[1] # Nil
        /\ ByteLen(bot.CreatorId) \in {25, 27} => result[1] # Nil
        /\ RuneCountInString(bot.DisplayName) = 65 => result[1] # Nil
        /\ RuneCountInString(bot.Description) = 1025 => result[1] # Nil
        /\ ( /\ RuneCountInString(bot.DisplayName) = 64
             /\ RuneCountInString(bot.Description) = 1024
             /\ \A i \in {1, 2, 5, 6, 7} : RuleHolds(bot, i) )
           => result[1] = Nil

\* An entity exactly at both rune limits, in two-byte runes, was accepted.
C1_Witness ==
    /\ result = <<Nil>>
    /\ bot.DisplayName = Str("e_acute", 64)
    /\ bot.Description = Str("e_acute", 1024)

\* An entity that breaks rule i and no other.
Breaking(i) ==
    LET ok == Bot(Str("a", 26), Str("a", 1), Str("a", 64), Str("a", 1024),
                  Str("b", 26), 7, 7, 0)
    IN  CASE i = 1 -> [ok EXCEPT !.UserId = Str("a", 25)]
          [] i = 2 -> [ok EXCEPT !.Username = <<>>]
          [] i = 3 -> [ok EXCEPT !.DisplayName = Str("a", 65)]
          [] i = 4 -> [ok EXCEPT !.Description = Str("a", 1025)]
          [] i = 5 -> [ok EXCEPT !.CreatorId = Str("b", 27)]
          [] i = 6 -> [ok EXCEPT !.CreateAt = 0]
          [] i = 7 -> [ok EXCEPT !.UpdateAt = 0]

\* C2: a rejection carries the operation name "Bot.IsValid", status 400 and
\* the entity's identity as trace, and its message key names the first rule
\* the entity breaks: no entity whose first broken rule is another one is
\* rejected with the same key (Breaking(i) breaks rule i alone).
C2_KeyNamesFirstFailingRule ==
    (result # <<>> /\ result[1] # Nil) =>
        LET e == Deref(result[1]) IN
        /\ e.Where = "Bot.IsValid"
        /\ e.StatusCode = 400
        /\ e.params = [user_id |-> bot.UserId]
        /\ \A i \in 1..7 :
              Deref(IsValid(Breaking(i))).Id = e.Id => i = FirstFailing(bot)

-----------------------------------------------------------------------------
(* The token of a collection *)

\* A collection holds at most MaxList entities.
MaxList == 3

\* The entities of a collection: what BotList.Etag reads of them varies.
ListBot(id, updateAt) ==
    Bot(Str(id, 1), Str("a", 1), <<>>, <<>>, Str("b", 26), 7, updateAt, 0)

ListBots ==
    { ListBot(id, t) : id \in {"a", "b", "c"}, t \in {-5, 0, 100, 300} }

\* append(list, b)
AppendStep ==
    \E b \in ListBots :
        /\ Len(list) < MaxList
        /\ list' = Append(list, b)
        /\ token' = <<>>
        /\ UNCHANGED <<bot, clone, op, savedAt, zeroRead, result, wire,
                       decoded>>

ListEtagStep ==
    /\ token' = <<BotList_Etag(list)>>
    /\ UNCHANGED <<bot, clone, op, savedAt, zeroRead, result, list, wire,
                   decoded>>

InitList ==
    /\ bot = ZeroBot
    /\ IdleLife /\ IdleValid /\ IdleList /\ IdleCodec

NextList == AppendStep \/ ListEtagStep

SpecList == InitList /\ [][NextList]_vars

\* The greatest UpdateAt of a non-empty collection, the places that hold it,
\* and the token derived from an identity, a time stamp, delta 0 and the
\* length of the collection.
MaxUpdateAt(l) ==
    CHOOSE t \in {l[i].UpdateAt : i \in 1..Len(l)} :
        \A i \in 1..Len(l) : l[i].UpdateAt <= t

AtMax(l) == {i \in 1..Len(l) : l[i].UpdateAt = MaxUpdateAt(l)}

TokenOf(id, t, l) ==
    Etag(<<id, FormatInt(t), FormatInt(0), FormatInt(Len(l))>>)

Example ==
    <<ListBot("a", 100), ListBot("b", 300), ListBot("c", 300)>>

\* C5 as stated: the token of a collection with a greatest UpdateAt above 0
\* is derived from the identity of the last entity that holds it; for the
\* UpdateAt [100, 300, 300] of "a", "b", "c" it is the token of "c", 300, 0
\* and 3.
C5_LastAtMaxWins ==
    (token # <<>> /\ list # <<>> /\ MaxUpdateAt(list) > 0) =>
        LET last == CHOOSE i \in AtMax(list) : \A j \in AtMax(list) : j <= i
        IN  /\ token[1] = TokenOf(list[last].UserId, MaxUpdateAt(list), list)
            /\ list = Example => token[1] = TokenOf(Str("c", 1), 300, list)

\* C5 amended: the token of a collection with a greatest UpdateAt above 0 is
\* derived from the identity of the first entity that holds it; for the
\* UpdateAt [100, 300, 300] of "a", "b", "c" it is the token of "b", 300, 0
\* and 3.
C5_FirstAtMaxWins ==
    (token # <<>> /\ list # <<>> /\ MaxUpdateAt(list) > 0) =>
        LET first == CHOOSE i \in AtMax(list) : \A j \in AtMax(list) : i <= j
        IN  /\ token[1] = TokenOf(list[first].UserId, MaxUpdateAt(list), list)
            /\ list = Example => token[1] = TokenOf(Str("b", 1), 300, list)

\* The token of the collection of the example was computed.
C5_Witness == token # <<>> /\ list = Example

\* C6 as stated: the token of a non-empty collection is derived from the
\* identity of an entity that holds the greatest UpdateAt, that UpdateAt,
\* delta 0 and the length; the token of the empty collection from "0", 0, 0
\* and 0.
C6_TokenOfAnEntityAtMax ==
    token # <<>> =>
        IF list = <<>> THEN token[1] = TokenOf(Str("0", 1), 0, list)
        ELSE \E i \in AtMax(list) :
                token[1] = TokenOf(list[i].UserId, MaxUpdateAt(list), list)

\* C6 amended: the token of a collection that holds an entity with an
\* UpdateAt above 0 is derived from the identity of an entity that holds the
\* greatest UpdateAt, that UpdateAt, delta 0 and the length; the token of
\* any other collection, the empty one included, from "0", 0, 0 and the
\* length.
C6_TokenOfAnEntityAtPositiveMax ==
    token # <<>> =>
        IF \E i \in 1..Len(list) : list[i].UpdateAt > 0
        THEN \E i \in AtMax(list) :
                token[1] = TokenOf(list[i].UserId, MaxUpdateAt(list), list)
        ELSE token[1] = TokenOf(Str("0", 1), 0, list)

\* The token of a collection of two entities never updated was computed.
C6_Witness ==
    /\ token # <<>>
    /\ Len(list) = 2
    /\ list[1].UpdateAt = 0 /\ list[2].UpdateAt = 0

-----------------------------------------------------------------------------
(* The codec *)

\* The entities that are encoded: in ASCII, in two-byte runes, with bytes
\* that are no valid UTF-8, and one the validator rejects.
CodecBots ==
    { Bot(uid, Str("a", 1), display, desc, Str("b", 26), 7, updateAt, 0) :
        uid \in {Str("a", 26), Str("a", 25), Str("xFF", 26)},
        display \in {<<>>, Str("e_acute", 64), Str("xFF", 1)},
        desc \in {Str("a", 1024),
                  Concat(Str("uFFFD", 1), Concat(Str("xFF", 1), Str("a", 1)))},
        updateAt \in {7, -7} }

\* The documents that arrive from outside: bytes that spell no JSON, values
\* of every kind, objects with members of the wrong kind, with null members
\* and with keys no field has, arrays with elements of the wrong kind.
Inputs ==
    { Garbage, JNull, JNum(5), JStr(Str("a", 1)), JArr(<<>>), JObj(<<>>),
      JObj([user_id |-> JStr(Str("a", 26)), create_at |-> JStr(Str("7", 1))]),
      JObj([user_id |-> JNum(5)]),
      JObj([user_id |-> JStr(Str("a", 26)), update_at |-> JNum(7),
            owner_id |-> JNum(5)]),
      JObj([username |-> JStr(Str("b", 1)), display_name |-> JNull]),
      JObj([username |-> JStr(<<>>), description |-> JNum(5)]),
      JArr(<<JObj([user_id |-> JStr(Str("a", 26))]), JNum(5)>>),
      JArr(<<JObj([user_id |-> JStr(Str("a", 26))]), JNull>>),
      JArr(<<JObj([user_id |-> JStr(Str("a", 26)),
                   delete_at |-> JStr(<<>>)])>>) }

ToJsonStep ==
    /\ wire' = Bot_ToJson(bot)
    /\ decoded' = <<>>
    /\ UNCHANGED <<bot, clone, op, savedAt, zeroRead, result, list, token>>

BotFromJsonStep ==
    /\ decoded' = <<"BotFromJson", BotFromJson(wire)>>
    /\ UNCHANGED <<bot, clone, op, savedAt, zeroRead, result, list, token,
                   wire>>

BotListFromJsonStep ==
    /\ decoded' = <<"BotListFromJson", BotListFromJson(wire)>>
    /\ UNCHANGED <<bot, clone, op, savedAt, zeroRead, result, list, token,
                   wire>>

BotPatchFromJsonStep ==
    /\ decoded' = <<"BotPatchFromJson", BotPatchFromJson(wire)>>
    /\ UNCHANGED <<bot, clone, op, savedAt, zeroRead, result, list, token,
                   wire>>

InitCodec ==
    /\ bot \in CodecBots
    /\ wire \in Inputs
    /\ decoded = <<>>
    /\ IdleLife /\ IdleValid /\ IdleList

NextCodec ==
    \/ ToJsonStep
    \/ BotFromJsonStep
    \/ BotListFromJsonStep
    \/ BotPatchFromJsonStep

SpecCodec == InitCodec /\ [][NextCodec]_vars

\* Decode reports an error for doc read as an entity: doc is no JSON, is
\* neither an object nor null, or has a member of the wrong kind.
FailsAsBot(doc) ==
    \/ doc.kind \notin {"object", "null"}
    \/ doc.kind = "object" /\ DecodeBotFails(doc.members)

\* Decode reports an error for doc read as a collection.
FailsAsBotList(doc) ==
    \/ doc.kind \notin {"array", "null"}
    \/ doc.kind = "array" /\ \E i \in 1..Len(doc.elems) : FailsAsBot(doc.elems[i])

\* C9: BotFromJson and BotListFromJson return an empty or zero-valued
\* result, nothing partially filled, for every input the decoder reports an
\* error for; BotPatchFromJson returns nil for every such input and a patch
\* that is not nil for every other input.
C9_FailedDecodeYieldsEmpty ==
    decoded # <<>> =>
        /\ (decoded[1] = "BotFromJson" /\ FailsAsBot(wire))
              => decoded[2] \in {Nil, Ptr(ZeroBot)}
        /\ (decoded[1] = "BotListFromJson" /\ FailsAsBotList(wire))
              => decoded[2] = <<>>
        /\ decoded[1] = "BotPatchFromJson"
              => (decoded[2] = Nil <=> DecodePatchFails(wire))

\* C10: an entity the validator accepts is encoded under the eight wire keys
\* and decoded to an entity equal to it in all eight fields.
C10_RoundTrip ==
    ( /\ decoded # <<>> /\ decoded[1] = "BotFromJson"
      /\ wire = Bot_ToJson(bot)
      /\ IsValid(bot) = Nil )
    => /\ DOMAIN wire.members =
            {"user_id", "username", "display_name", "description",
             "creator_id", "create_at", "update_at", "delete_at"}
       /\ decoded[2] = Ptr(bot)

=============================================================================
